---- MODULE Spec2Model ----
(***************************************************************************)
(* A model of doot: the reconciliation of managed group directories with   *)
(* resolved target locations (plan.rs, executor.rs, main.rs), the          *)
(* read-only status report (status.rs) and the two content stores          *)
(* (store/).  One behaviour is one invocation of the program on a          *)
(* filesystem drawn from a bounded set.                                    *)
(***************************************************************************)
EXTENDS Integers, Sequences, FiniteSets, TLC

(***************************************************************************)
(* Bounds                                                                  *)
(***************************************************************************)
\* at most this many paths hold a file or a link in the initial filesystem of
\* an import or export (Spec)
MaxFiles == 2
\* the same for a status check (SpecStatus)
MaxStatusFiles == 3
\* longest line typed at the confirmation prompt (SpecConfirm)
MaxLineLen == 2
\* lines in the ignore-rule file of a group (SpecRules)
MaxRuleLines == 2
\* writes of another process while an export is applied (SpecRace)
MaxOutsideWrites == 2
\* add_group calls on one plan, and entries in one call (SpecPlan)
MaxPlanGroups == 2
MaxEntries == 2

(***************************************************************************)
(* The world: configuration and filesystem                                 *)
(***************************************************************************)
\* config.groups keys; the managed directory of a group is cwd/<name>
Groups == {"bash", "vim"}
GroupOrder == <<"bash", "vim">>
\* the one expanded target location the resolvers of the model name
TargetRoot == "~"
\* a resolver string whose shell expansion fails (an unset variable)
BadResolver == "$UNSET"
\* the value of a group without the requested resolver
NoResolver == "(none)"
ResolverValues == {TargetRoot, BadResolver, NoResolver}
\* the name of the ignore-rule file of a group directory
RuleFile == ".dootignore"
\* relative paths of files, in PathBuf order
RelOrder == <<RuleFile, "a", "b">>
Rels == {RelOrder[i] : i \in 1..Len(RelOrder)}
Roots == Groups \cup {TargetRoot}
Paths == Roots \X Rels
\* the paths of the files that are synchronised
DataPaths == {p \in Paths : p[2] # RuleFile}
NoPath == <<"", "">>
\* file contents: a text payload, a binary payload, and the empty file
Text == <<104, 105>>
Binary == <<0, 255>>
Empty == <<>>
InitContents == {Text, Binary}

Absent == [kind |-> "none", content |-> Empty, to |-> NoPath]
File(c) == [kind |-> "file", content |-> c, to |-> NoPath]
Link(p) == [kind |-> "link", content |-> Empty, to |-> p]

Ok(v) == [ok |-> TRUE, val |-> v]
Err == [ok |-> FALSE, val |-> "error"]

VARIABLES
  fs,           \* Paths -> node: what each path holds
  groupDirs,    \* the groups whose managed directory exists
  mode,         \* config.mode: "File" or "Link"
  resolvers,    \* Groups -> the requested resolver's string in that group
  pc,           \* position of the invocation
  direction,    \* "import" or "export"
  targets,      \* the groups the invocation was asked for, in order
  skip_confirm, \* the --yes flag
  plan,         \* the Plan handed to the executor
  cursor,       \* execute(): index of the next entry of Worklist(plan)
  result,       \* "none", "Ok" or "Err": what the invocation returned
  ops,          \* the store operations execute() has performed, in order
  input,        \* confirm(): the last line read from stdin
  shown,        \* confirm(): the entries show_diffs rendered for that line
  hinted,       \* confirm(): whether that line printed the usage hint
  out,          \* the messages Executor::run has printed, in order
  fs0,          \* the filesystem at the start of the invocation
  plan2,        \* the plan built by a second invocation after the first
  groupResults, \* check_all_groups(): sequence of GroupStatusResult
  planMembers,  \* check_plan(): config.plans.get(plan_name)
  planResult,   \* check_plan(): the status of the plan
  outside       \* the writes of another process since the plan was built

vars == <<fs, groupDirs, mode, resolvers, pc, direction, targets, skip_confirm,
          plan, cursor, result, ops, input, shown, hinted, out, fs0, plan2,
          groupResults, planMembers, planResult, outside>>

(***************************************************************************)
(* std::path / std::fs as the stores use them                              *)
(***************************************************************************)
\* the path a chain of symlinks ends at, NoPath when the chain loops
RECURSIVE Follow(_, _, _)
Follow(f, p, fuel) ==
  IF p \notin Paths THEN NoPath
  ELSE IF f[p].kind # "link" THEN p
  ELSE IF fuel = 0 THEN NoPath
  ELSE Follow(f, f[p].to, fuel - 1)

Resolve(f, p) == Follow(f, p, Cardinality(Paths))

\* Path::exists: follows symlinks
PathExists(f, p) == Resolve(f, p) \in Paths /\ f[Resolve(f, p)].kind = "file"
\* Path::is_symlink
IsSymlink(f, p) == p \in Paths /\ f[p].kind = "link"
\* std::fs::read
FsRead(f, p) == IF PathExists(f, p) THEN Ok(f[Resolve(f, p)].content) ELSE Err
\* std::fs::write: writes through a symlink, creates the file a dangling one names
FsWrite(f, p, c) ==
  LET q == Resolve(f, p) IN IF q \in Paths THEN [f EXCEPT ![q] = File(c)] ELSE f
FsWritable(f, p) == Resolve(f, p) \in Paths

(***************************************************************************)
(* store/: the Store trait, FileStore and LinkStore.  The store is chosen  *)
(* by config.mode (create_store), so a store is named by its mode.         *)
(***************************************************************************)
\* Store::read is std::fs::read in both stores
StoreRead(f, p) == FsRead(f, p)

\* an exists that follows symlinks in both stores
StoreExists_PathOnly(m, f, p) == PathExists(f, p)

\* FileStore::exists is path.exists(); LinkStore::exists also accepts a symlink
\* that does not resolve
StoreExists(m, f, p) ==
  IF m = "File" THEN PathExists(f, p) ELSE PathExists(f, p) \/ IsSymlink(f, p)

\* the SHA-256 digest, hex encoded: equal digests stand for equal contents
Sha256(c) == <<"sha256", c>>

\* Store::hash (LinkStore overrides it with the same body)
StoreHash(f, p) ==
  LET content == StoreRead(f, p) IN
  IF content.ok THEN Ok(Sha256(content.val)) ELSE Err

\* a compare that checks presence and forgets the digests
StoreCompare_NoDigest(m, f, a, b) ==
  IF ~StoreExists(m, f, a) \/ ~StoreExists(m, f, b) THEN Ok(FALSE)
  ELSE LET hash_a == StoreHash(f, a)
           hash_b == StoreHash(f, b)
       IN IF ~hash_a.ok THEN Err
          ELSE IF ~hash_b.ok THEN Err
          ELSE Ok(TRUE)

\* Store::compare
StoreCompare(m, f, a, b) ==
  IF ~StoreExists(m, f, a) \/ ~StoreExists(m, f, b) THEN Ok(FALSE)
  ELSE LET hash_a == StoreHash(f, a)
           hash_b == StoreHash(f, b)
       IN IF ~hash_a.ok THEN Err
          ELSE IF ~hash_b.ok THEN Err
          ELSE Ok(hash_a.val = hash_b.val)

\* Result<bool>::unwrap_or
UnwrapOr(r, default) == IF r.ok THEN r.val ELSE default

\* outcomes of one mutating store call that the filesystem decides: it
\* succeeds, fails before changing anything, or fails half way
IoOutcomes == {"ok", "fail_early", "fail_late"}

\* a write that creates the file and leaves out the content
StoreWrite_NoContent(f, dirs, p, c, io) ==
  LET made == IF p[1] \in Groups THEN dirs \cup {p[1]} ELSE dirs IN
  IF io = "fail_early" THEN [fs |-> f, dirs |-> dirs, ok |-> FALSE]
  ELSE IF ~FsWritable(f, p) THEN [fs |-> f, dirs |-> made, ok |-> FALSE]
  ELSE IF io = "fail_late"
       THEN [fs |-> FsWrite(f, p, Empty), dirs |-> made, ok |-> FALSE]
       ELSE [fs |-> FsWrite(f, p, Empty), dirs |-> made, ok |-> TRUE]

\* Store::write (the same in both stores): create_dir_all(parent), fs::write.
\* Returns the new filesystem, the new set of group directories and ok.
StoreWrite(f, dirs, p, c, io) ==
  LET made == IF p[1] \in Groups THEN dirs \cup {p[1]} ELSE dirs IN
  IF io = "fail_early" THEN [fs |-> f, dirs |-> dirs, ok |-> FALSE]
  ELSE IF ~FsWritable(f, p) THEN [fs |-> f, dirs |-> made, ok |-> FALSE]
  ELSE IF io = "fail_late"
       THEN [fs |-> FsWrite(f, p, Empty), dirs |-> made, ok |-> FALSE]
       ELSE [fs |-> FsWrite(f, p, c), dirs |-> made, ok |-> TRUE]

\* LinkStore::create_symlink: create_dir_all(parent), remove_file(target) when
\* something is there, symlink(source, target)
CreateSymlink(f, dirs, source, target, io) ==
  LET made == IF target[1] \in Groups THEN dirs \cup {target[1]} ELSE dirs
      removed == IF PathExists(f, target) \/ IsSymlink(f, target)
                 THEN [f EXCEPT ![target] = Absent] ELSE f
  IN IF io = "fail_early" THEN [fs |-> f, dirs |-> dirs, ok |-> FALSE]
     ELSE IF io = "fail_late" THEN [fs |-> removed, dirs |-> made, ok |-> FALSE]
     ELSE [fs |-> [removed EXCEPT ![target] = Link(source)], dirs |-> made, ok |-> TRUE]

(***************************************************************************)
(* config.rs and resolver.rs                                               *)
(***************************************************************************)
\* Config::get_resolver
GetResolver(res, g) ==
  IF g \notin Groups THEN Err
  ELSE IF res[g] = NoResolver THEN Err ELSE Ok(res[g])

\* resolver::resolve_path: shellexpand::full fails on an unset variable
ResolvePath(s) == IF s = BadResolver THEN Err ELSE Ok(s)

(***************************************************************************)
(* ignore.rs: IgnoreRules over glob::Pattern.  Text is a sequence of bytes. *)
(***************************************************************************)
\* the byte of an ASCII character
Byte(ch) ==
  CASE ch = "\n" -> 10 [] ch = " " -> 32 [] ch = "!" -> 33 [] ch = "#" -> 35
    [] ch = "*" -> 42 [] ch = "." -> 46 [] ch = "?" -> 63 [] ch = "[" -> 91
    [] ch = "a" -> 97 [] ch = "b" -> 98 [] ch = "d" -> 100 [] ch = "e" -> 101
    [] ch = "g" -> 103 [] ch = "i" -> 105 [] ch = "n" -> 110 [] ch = "o" -> 111
    [] ch = "r" -> 114 [] ch = "t" -> 116
Bytes(chars) == [i \in 1..Len(chars) |-> Byte(chars[i])]

\* relative.to_string_lossy(): the text of a relative path
RelText(rel) ==
  CASE rel = "a" -> Bytes(<<"a">>)
    [] rel = "b" -> Bytes(<<"b">>)
    [] rel = RuleFile ->
         Bytes(<<".", "d", "o", "o", "t", "i", "g", "n", "o", "r", "e">>)

\* String::from_utf8 accepts the text: no byte of the model above 127 is part
\* of a valid sequence
IsUtf8(c) == \A i \in 1..Len(c) : c[i] < 128

\* std::fs::read_to_string
ReadToString(f, p) ==
  LET content == FsRead(f, p) IN
  IF content.ok /\ IsUtf8(content.val) THEN content ELSE Err

\* str::lines: the text between newlines, no empty last line
RECURSIVE SplitLines(_, _)
SplitLines(text, line) ==
  IF text = <<>> THEN (IF line = <<>> THEN <<>> ELSE <<line>>)
  ELSE IF Head(text) = Byte("\n") THEN <<line>> \o SplitLines(Tail(text), <<>>)
  ELSE SplitLines(Tail(text), Append(line, Head(text)))

\* str::trim on bytes
RECURSIVE TrimBytes(_)
TrimBytes(s) ==
  IF s # <<>> /\ Head(s) \in {Byte(" "), Byte("\n")} THEN TrimBytes(Tail(s))
  ELSE IF s # <<>> /\ s[Len(s)] \in {Byte(" "), Byte("\n")}
       THEN TrimBytes(SubSeq(s, 1, Len(s) - 1))
  ELSE s

\* str::find(" #"): index of the first occurrence, 0 when there is none
RECURSIVE FindInlineComment(_, _)
FindInlineComment(s, i) ==
  IF i + 1 > Len(s) THEN 0
  ELSE IF s[i] = Byte(" ") /\ s[i + 1] = Byte("#") THEN i
  ELSE FindInlineComment(s, i + 1)

\* glob::Pattern::new: a '[' that is never closed is a PatternError (the
\* texts of the model hold no ']')
GlobNew(text) ==
  IF \E i \in 1..Len(text) : text[i] = Byte("[") THEN Err ELSE Ok(text)

\* glob::Pattern::matches with the default options: '*' is any sequence, '?'
\* any one character, anything else itself
RECURSIVE GlobMatches(_, _)
GlobMatches(pattern, s) ==
  IF pattern = <<>> THEN s = <<>>
  ELSE IF Head(pattern) = Byte("*")
       THEN GlobMatches(Tail(pattern), s) \/ (s # <<>> /\ GlobMatches(pattern, Tail(s)))
  ELSE IF s = <<>> THEN FALSE
  ELSE IF Head(pattern) = Byte("?") THEN GlobMatches(Tail(pattern), Tail(s))
  ELSE Head(pattern) = Head(s) /\ GlobMatches(Tail(pattern), Tail(s))

\* glob::Pattern::new(pattern_str) and the IgnorePattern pushed, or the error
IgnorePattern(pattern_str, negated) ==
  LET pattern == GlobNew(pattern_str) IN
  IF pattern.ok THEN Ok(<<[pattern |-> pattern.val, negated |-> negated]>>) ELSE Err

\* line.strip_prefix('!')
StripNegation(line) ==
  IF line # <<>> /\ Head(line) = Byte("!")
  THEN IgnorePattern(Tail(line), TRUE) ELSE IgnorePattern(line, FALSE)

\* the line up to an inline comment at idx, trimmed
CutInlineComment(line, idx) ==
  StripNegation(IF idx > 0 THEN TrimBytes(SubSeq(line, 1, idx - 1)) ELSE line)

\* a trimmed line: blank lines and comment lines give no pattern
ParseTrimmed(line) ==
  IF line = <<>> \/ Head(line) = Byte("#") THEN Ok(<<>>)
  ELSE CutInlineComment(line, FindInlineComment(line, 1))

\* one line of IgnoreRules::parse: no pattern, a pattern, or an error
ParseLine(raw) == ParseTrimmed(TrimBytes(raw))

\* IgnoreRules::parse: the patterns in file order, or the first error
RECURSIVE ParseLines(_, _)
PushParsed(one, rest, patterns) ==
  IF one.ok THEN ParseLines(rest, patterns \o one.val) ELSE Err
ParseLines(lines, patterns) ==
  IF lines = <<>> THEN Ok(patterns)
  ELSE PushParsed(ParseLine(Head(lines)), Tail(lines), patterns)
Parse(content) == ParseLines(SplitLines(content, <<>>), <<>>)

\* a load that takes a file it cannot read or parse for an empty rule set
Load_ForgivesErrors(f, path) ==
  IF ~PathExists(f, path) THEN Ok(<<>>)
  ELSE LET content == ReadToString(f, path) IN
       IF content.ok /\ Parse(content.val).ok THEN Parse(content.val) ELSE Ok(<<>>)

\* IgnoreRules::load
NoRules == <<>>
Load(f, path) ==
  IF ~PathExists(f, path) THEN Ok(NoRules)
  ELSE LET content == ReadToString(f, path) IN
       IF content.ok THEN Parse(content.val) ELSE Err

\* is_ignored with the first matching pattern deciding
RECURSIVE IsIgnoredFrom_FirstMatch(_, _, _)
IsIgnoredFrom_FirstMatch(patterns, path, ignored) ==
  IF patterns = <<>> THEN ignored
  ELSE IF GlobMatches(Head(patterns).pattern, path) THEN ~Head(patterns).negated
  ELSE IsIgnoredFrom_FirstMatch(Tail(patterns), path, ignored)

\* the loop of is_ignored from its flag so far
RECURSIVE IsIgnoredFrom(_, _, _)
IsIgnoredFrom(patterns, path, ignored) ==
  IF patterns = <<>> THEN ignored
  ELSE IsIgnoredFrom(Tail(patterns), path,
                     IF GlobMatches(Head(patterns).pattern, path)
                     THEN ~Head(patterns).negated ELSE ignored)

\* IgnoreRules::is_ignored / is_included
IsIgnored(rules, path) == IsIgnoredFrom(rules, path, FALSE)
IsIncluded(rules, path) == ~IsIgnored(rules, path)

(***************************************************************************)
(* plan.rs: FileStatus, FileEntry, GroupPlan, Plan, PlanBuilder            *)
(***************************************************************************)
FileStatus == {"Same", "Create", "Overwrite"}

\* compute_status that never reports an existing destination as Same
ComputeStatus_NeverSame(m, f, source, destination) ==
  IF ~StoreExists(m, f, destination) THEN "Create" ELSE "Overwrite"

\* PlanBuilder::compute_status
ComputeStatus(m, f, source, destination) ==
  IF ~StoreExists(m, f, destination) THEN "Create"
  ELSE IF UnwrapOr(StoreCompare(m, f, source, destination), FALSE) THEN "Same"
  ELSE "Overwrite"

\* WalkDir::new(root) filtered to regular files (links are not followed, so a
\* symlink is no file; a root that does not exist yields no entry)
WalkFiles(f, root) == {r \in Rels : f[<<root, r>>].kind = "file"}

\* the relative paths of S in ascending order (entries.sort_by)
RECURSIVE SortRels(_, _)
SortRels(S, i) ==
  IF i > Len(RelOrder) THEN <<>>
  ELSE (IF RelOrder[i] \in S THEN <<RelOrder[i]>> ELSE <<>>) \o SortRels(S, i + 1)

FileEntry(m, f, rel, srcRoot, dstRoot) ==
  [relative_path |-> rel,
   source |-> <<srcRoot, rel>>,
   destination |-> <<dstRoot, rel>>,
   status |-> ComputeStatus(m, f, <<srcRoot, rel>>, <<dstRoot, rel>>)]

\* entries.push for each of the relative paths kept, then entries.sort_by
BuildEntries(m, f, kept, srcRoot, dstRoot) ==
  LET sorted == SortRels(kept, 1) IN
  [i \in 1..Len(sorted) |-> FileEntry(m, f, sorted[i], srcRoot, dstRoot)]

\* PlanBuilder::build_import: the resolved path is the source
BuildImport(m, f, ignore_rules, group_dir, resolved_path) ==
  BuildEntries(m, f,
               {r \in WalkFiles(f, resolved_path) : IsIncluded(ignore_rules, RelText(r))},
               resolved_path, group_dir)

\* build_export without the test for the rule file
BuildExport_RuleFileByRules(m, f, ignore_rules, group_dir, resolved_path) ==
  BuildEntries(m, f,
               {r \in WalkFiles(f, group_dir) : IsIncluded(ignore_rules, RelText(r))},
               group_dir, resolved_path)

\* build_export sorting in descending order
BuildExport_Descending(m, f, ignore_rules, group_dir, resolved_path) ==
  LET kept == {r \in WalkFiles(f, group_dir) :
                 r # RuleFile /\ IsIncluded(ignore_rules, RelText(r))}
      sorted == SortRels(kept, 1)
  IN [i \in 1..Len(sorted) |->
        FileEntry(m, f, sorted[Len(sorted) + 1 - i], group_dir, resolved_path)]

\* PlanBuilder::build_export: the group directory is the source; the rule
\* file is skipped before the rules are asked
BuildExport(m, f, ignore_rules, group_dir, resolved_path) ==
  BuildEntries(m, f,
               {r \in WalkFiles(f, group_dir) :
                  r # RuleFile /\ IsIncluded(ignore_rules, RelText(r))},
               group_dir, resolved_path)

\* GroupPlan::has_changes
GroupHasChanges(g) == \E i \in 1..Len(g.entries) : g.entries[i].status # "Same"

\* has_changes taken to mean that the plan has entries
HasChanges_AnyEntry(p) == \E i \in 1..Len(p) : p[i].entries # <<>>

\* Plan::has_changes
HasChanges(p) == \E i \in 1..Len(p) : GroupHasChanges(p[i])

\* GroupPlan::count_by_status
CountByStatus(g, status) ==
  Cardinality({i \in 1..Len(g.entries) : g.entries[i].status = status})

\* Plan::total_count_by_status
RECURSIVE TotalCountByStatus(_, _)
TotalCountByStatus(p, status) ==
  IF p = <<>> THEN 0
  ELSE CountByStatus(Head(p), status) + TotalCountByStatus(Tail(p), status)

\* Plan::new
NewPlan == <<>>

\* Plan::add_group
AddGroup(p, group_name, entries) ==
  Append(p, [group_name |-> group_name, entries |-> entries])

\* is_empty taken to mean that the plan has no group
IsEmpty_NoGroups(p) == p = <<>>

\* Plan::is_empty
IsEmpty(p) == \A i \in 1..Len(p) : Len(p[i].entries) = 0

\* the loop of run_import / run_export over the requested groups: Ok(plan), or
\* Err when a resolver lookup or a path expansion fails
RECURSIVE BuildPlan(_, _, _, _, _, _)
\* a loop that ends the plan at a group whose rule file does not load
BuildGroup_StopsAtBadRules(m, f, res, dir, groups, acc, root, ignore_rules) ==
  IF ~ignore_rules.ok THEN Ok(acc)
  ELSE BuildPlan(m, f, res, dir, Tail(groups),
                 AddGroup(acc, Head(groups),
                          IF dir = "import"
                          THEN BuildImport(m, f, ignore_rules.val, Head(groups), root)
                          ELSE BuildExport(m, f, ignore_rules.val, Head(groups), root)))

\* the body of the loop once the rule file of the group is loaded
BuildGroup(m, f, res, dir, groups, acc, root, ignore_rules) ==
  IF ~ignore_rules.ok THEN Err
  ELSE BuildPlan(m, f, res, dir, Tail(groups),
                 AddGroup(acc, Head(groups),
                          IF dir = "import"
                          THEN BuildImport(m, f, ignore_rules.val, Head(groups), root)
                          ELSE BuildExport(m, f, ignore_rules.val, Head(groups), root)))
BuildPlan(m, f, res, dir, groups, acc) ==
  IF groups = <<>> THEN Ok(acc)
  ELSE LET group_name == Head(groups)
           resolved_path == GetResolver(res, group_name)
       IN IF ~resolved_path.ok THEN Err
          ELSE IF ~ResolvePath(resolved_path.val).ok THEN Err
          ELSE BuildGroup(m, f, res, dir, groups, acc,
                          ResolvePath(resolved_path.val).val,
                          Load(f, <<group_name, RuleFile>>))

(***************************************************************************)
(* status.rs: StatusChecker                                                *)
(***************************************************************************)
GroupStatus == {"InSync", "OutOfSync", "New", "Skipped"}
FileState == {"InSync", "Modified", "New"}

\* StatusChecker::compute_file_state
ComputeFileState(m, f, source, destination) ==
  IF ~StoreExists(m, f, destination) THEN "New"
  ELSE IF UnwrapOr(StoreCompare(m, f, source, destination), FALSE) THEN "InSync"
  ELSE "Modified"

\* the loop with an InSync file leaving all_new alone
RECURSIVE FoldFlags_InSyncKeepsAllNew(_, _, _)
FoldFlags_InSyncKeepsAllNew(files, i, flags) ==
  IF i > Len(files) THEN flags
  ELSE FoldFlags_InSyncKeepsAllNew(files, i + 1,
         CASE files[i].state = "New" ->
                [has_changes |-> TRUE, all_new |-> flags.all_new]
           [] files[i].state = "Modified" ->
                [has_changes |-> TRUE, all_new |-> FALSE]
           [] OTHER -> flags)

\* the loop of check_group over the walked files: the flags has_changes and
\* all_new after the files of `files` from index i on
RECURSIVE FoldFlags(_, _, _)
FoldFlags(files, i, flags) ==
  IF i > Len(files) THEN flags
  ELSE FoldFlags(files, i + 1,
         CASE files[i].state = "New" ->
                [has_changes |-> TRUE, all_new |-> flags.all_new]
           [] files[i].state = "Modified" ->
                [has_changes |-> TRUE, all_new |-> FALSE]
           [] OTHER ->
                [has_changes |-> flags.has_changes, all_new |-> FALSE])

\* the if-chain without its first branch
GroupStatusOf_NoEmptyCheck(files) ==
  LET flags == FoldFlags(files, 1, [has_changes |-> FALSE, all_new |-> TRUE]) IN
  IF ~flags.has_changes THEN "InSync"
  ELSE IF flags.all_new THEN "New"
  ELSE "OutOfSync"

\* the final if-chain of check_group
GroupStatusOf(files) ==
  LET flags == FoldFlags(files, 1, [has_changes |-> FALSE, all_new |-> TRUE]) IN
  IF Len(files) = 0 THEN "New"
  ELSE IF ~flags.has_changes THEN "InSync"
  ELSE IF flags.all_new THEN "New"
  ELSE "OutOfSync"

GroupStatusResult(name, status, files) ==
  [name |-> name, status |-> status, files |-> files]

\* str::trim_end on bytes
RECURSIVE TrimEndBytes(_)
TrimEndBytes(s) ==
  IF s # <<>> /\ s[Len(s)] \in {Byte(" "), Byte("\n")}
  THEN TrimEndBytes(SubSeq(s, 1, Len(s) - 1)) ELSE s

\* one line of the rule file as the walker reads it (a gitignore line): a
\* comment only at the start of the line, whitespace trimmed only at the end,
\* '!' for a whitelist pattern, a line whose glob is invalid dropped
WalkerGlob(pattern_str, negated) ==
  IF ~GlobNew(pattern_str).ok THEN <<>>
  ELSE <<[pattern |-> pattern_str, negated |-> negated]>>
WalkerPattern(line) ==
  IF line = <<>> THEN <<>>
  ELSE IF Head(line) = Byte("!") THEN WalkerGlob(Tail(line), TRUE)
  ELSE WalkerGlob(line, FALSE)
WalkerLine(raw) ==
  WalkerPattern(IF raw # <<>> /\ Head(raw) = Byte("#") THEN <<>> ELSE TrimEndBytes(raw))

RECURSIVE WalkerLines(_)
WalkerLines(lines) ==
  IF lines = <<>> THEN <<>> ELSE WalkerLine(Head(lines)) \o WalkerLines(Tail(lines))

\* the patterns add_custom_ignore_filename(".dootignore") takes from the
\* rule file of the directory walked
WalkerRules(f, root) ==
  LET content == ReadToString(f, <<root, RuleFile>>) IN
  IF content.ok THEN WalkerLines(SplitLines(content.val, <<>>)) ELSE <<>>

\* WalkBuilder::new(root).standard_filters(false) with the custom ignore file,
\* filtered to regular files: hidden files are walked, the rule file too
WalkerFiles(f, root) ==
  {r \in WalkFiles(f, root) : ~IsIgnored(WalkerRules(f, root), RelText(r))}

\* the result check_group returns for the classified files
CheckedResult(group_name, files) ==
  Ok(GroupStatusResult(group_name, GroupStatusOf(files), files))

\* the walked files that the rules include, classified in sorted order
ClassifyFiles(m, f, group_name, root, sorted) ==
  CheckedResult(group_name,
                [i \in 1..Len(sorted) |->
                   [relative_path |-> sorted[i],
                    state |-> ComputeFileState(m, f, <<group_name, sorted[i]>>,
                                               <<root, sorted[i]>>)]])

\* check_group from the loading of the rule file on
CheckFiles(m, f, group_name, root, ignore_rules) ==
  IF ~ignore_rules.ok THEN Err
  ELSE ClassifyFiles(m, f, group_name, root,
                     SortRels({r \in WalkerFiles(f, group_name) :
                                 IsIncluded(ignore_rules.val, RelText(r))}, 1))

\* check_group looking for the group directory before the resolver
CheckGroup_DirFirst(m, f, dirs, res, group_name) ==
  LET resolved_path == GetResolver(res, group_name) IN
  IF group_name \notin dirs THEN Ok(GroupStatusResult(group_name, "New", <<>>))
  ELSE IF ~resolved_path.ok THEN Ok(GroupStatusResult(group_name, "Skipped", <<>>))
  ELSE IF ~ResolvePath(resolved_path.val).ok THEN Err
  ELSE CheckFiles(m, f, group_name, ResolvePath(resolved_path.val).val,
                  Load(f, <<group_name, RuleFile>>))

\* StatusChecker::check_group
CheckGroup(m, f, dirs, res, group_name) ==
  LET resolved_path == GetResolver(res, group_name) IN
  IF ~resolved_path.ok THEN Ok(GroupStatusResult(group_name, "Skipped", <<>>))
  ELSE IF ~ResolvePath(resolved_path.val).ok THEN Err
  ELSE IF group_name \notin dirs THEN Ok(GroupStatusResult(group_name, "New", <<>>))
  ELSE CheckFiles(m, f, group_name, ResolvePath(resolved_path.val).val,
                  Load(f, <<group_name, RuleFile>>))

\* group_results.iter().find(|g| g.name == group_name): index of the first
\* result of that name, 0 when there is none
RECURSIVE FindResult(_, _, _)
FindResult(results, name, i) ==
  IF i > Len(results) THEN 0
  ELSE IF results[i].name = name THEN i
  ELSE FindResult(results, name, i + 1)

\* the loop with New taking the status whatever it was
RECURSIVE FoldPlan_NewOverrides(_, _, _)
FoldPlan_NewOverrides(groups_in_plan, results, st) ==
  IF groups_in_plan = <<>> THEN st
  ELSE LET at == FindResult(results, Head(groups_in_plan), 1)
           next ==
             IF at = 0 THEN st
             ELSE CASE results[at].status = "Skipped" -> st
                    [] results[at].status = "OutOfSync" ->
                         [status |-> "OutOfSync", has_any_group |-> TRUE]
                    [] results[at].status = "New" ->
                         [status |-> "New", has_any_group |-> TRUE]
                    [] OTHER ->
                         [status |-> st.status, has_any_group |-> TRUE]
       IN FoldPlan_NewOverrides(Tail(groups_in_plan), results, next)

\* the loop of check_plan over groups_in_plan
RECURSIVE FoldPlan(_, _, _)
FoldPlan(groups_in_plan, results, st) ==
  IF groups_in_plan = <<>> THEN st
  ELSE LET at == FindResult(results, Head(groups_in_plan), 1)
           next ==
             IF at = 0 THEN st
             ELSE CASE results[at].status = "Skipped" -> st
                    [] results[at].status = "OutOfSync" ->
                         [status |-> "OutOfSync", has_any_group |-> TRUE]
                    [] results[at].status = "New" ->
                         [status |-> IF st.status # "OutOfSync" THEN "New" ELSE st.status,
                          has_any_group |-> TRUE]
                    [] OTHER ->
                         [status |-> st.status, has_any_group |-> TRUE]
       IN FoldPlan(Tail(groups_in_plan), results, next)

\* config.plans.get(plan_name): no such plan, a plan of all groups (in the
\* order the map yields its keys), or a plan listing its groups
UnknownPlan == [kind |-> "unknown", groups |-> <<>>]
AllGroupsPlan(order) == [kind |-> "all", groups |-> order]
ListedPlan(groups) == [kind |-> "listed", groups |-> groups]

\* StatusChecker::check_plan
CheckPlan(plan_groups, group_results) ==
  LET groups_in_plan == plan_groups.groups
      st == FoldPlan(groups_in_plan, group_results,
                     [status |-> "InSync", has_any_group |-> FALSE])
  IN IF ~st.has_any_group THEN "Skipped" ELSE st.status

(***************************************************************************)
(* executor.rs: Executor                                                   *)
(***************************************************************************)
\* the entries with the later groups first
RECURSIVE Worklist_LastGroupFirst(_)
Worklist_LastGroupFirst(p) ==
  IF p = <<>> THEN <<>>
  ELSE Worklist_LastGroupFirst(Tail(p)) \o
       (IF GroupHasChanges(Head(p))
        THEN SelectSeq(Head(p).entries, LAMBDA e : e.status # "Same")
        ELSE <<>>)

\* the entries execute() applies, in its order: the groups with changes, and in
\* each the entries that are not Same
RECURSIVE Worklist(_)
Worklist(p) ==
  IF p = <<>> THEN <<>>
  ELSE (IF GroupHasChanges(Head(p))
        THEN SelectSeq(Head(p).entries, LAMBDA e : e.status # "Same")
        ELSE <<>>) \o Worklist(Tail(p))

\* the entries show_diffs renders, in its order
RECURSIVE DiffList(_)
DiffList(p) ==
  IF p = <<>> THEN <<>>
  ELSE SelectSeq(Head(p).entries, LAMBDA e : e.status # "Same") \o DiffList(Tail(p))

\* show_entry_diff succeeds when the destination, if the store says it exists,
\* and the source can be read
ShowEntryDiffOk(m, f, entry) ==
  /\ StoreExists(m, f, entry.destination) => StoreRead(f, entry.destination).ok
  /\ StoreRead(f, entry.source).ok

\* show_diffs: the entries rendered before the first failure, and ok
RECURSIVE ShowDiffs(_, _, _, _)
ShowDiffs(m, f, entries, acc) ==
  IF entries = <<>> THEN [shown |-> acc, ok |-> TRUE]
  ELSE IF ~ShowEntryDiffOk(m, f, Head(entries)) THEN [shown |-> acc, ok |-> FALSE]
  ELSE ShowDiffs(m, f, Tail(entries), Append(acc, Head(entries)))

\* characters of a line typed at the prompt
Whitespace == {" ", "\n"}
ToAsciiLowerChar(c) ==
  CASE c = "Y" -> "y" [] c = "N" -> "n" [] c = "D" -> "d" [] OTHER -> c

\* str::trim
RECURSIVE TrimStart(_)
TrimStart(s) ==
  IF s # <<>> /\ Head(s) \in Whitespace THEN TrimStart(Tail(s)) ELSE s
RECURSIVE TrimEnd(_)
TrimEnd(s) ==
  IF s # <<>> /\ s[Len(s)] \in Whitespace THEN TrimEnd(SubSeq(s, 1, Len(s) - 1)) ELSE s
Trim(s) == TrimEnd(TrimStart(s))

\* str::to_ascii_lowercase
ToAsciiLowercase(s) == [i \in 1..Len(s) |-> ToAsciiLowerChar(s[i])]

\* the match with the last arm returning false instead of looping
ConfirmCommand_InvalidAborts(line) ==
  LET word == ToAsciiLowercase(Trim(line)) IN
  CASE word = <<"y">> -> "proceed"
    [] word = <<"d">> -> "diff"
    [] OTHER -> "abort"

\* the match on the line as read, neither trimmed nor lowercased
ConfirmCommand_Untrimmed(line) ==
  CASE line = <<"y">> -> "proceed"
    [] line = <<"n">> \/ line = <<>> -> "abort"
    [] line = <<"d">> -> "diff"
    [] OTHER -> "invalid"

\* the match of confirm() on one line
ConfirmCommand(line) ==
  LET word == ToAsciiLowercase(Trim(line)) IN
  CASE word = <<"y">> -> "proceed"
    [] word = <<"n">> \/ word = <<>> -> "abort"
    [] word = <<"d">> -> "diff"
    [] OTHER -> "invalid"

\* execute_entry writing the content in both modes
ExecuteEntry_AlwaysWrite(m, f, dirs, entry, io) ==
  LET content == StoreRead(f, entry.source) IN
  IF ~content.ok THEN [fs |-> f, dirs |-> dirs, ok |-> FALSE, op |-> "read"]
  ELSE [op |-> "write"] @@ StoreWrite(f, dirs, entry.destination, content.val, io)

\* execute_entry classifying the entry again and leaving a Same one alone
ExecuteEntry_Reclassify(m, f, dirs, entry, io) ==
  IF ComputeStatus(m, f, entry.source, entry.destination) = "Same"
  THEN [fs |-> f, dirs |-> dirs, ok |-> TRUE, op |-> "none"]
  ELSE IF m = "File"
  THEN LET content == StoreRead(f, entry.source) IN
       IF ~content.ok THEN [fs |-> f, dirs |-> dirs, ok |-> FALSE, op |-> "read"]
       ELSE [op |-> "write"] @@ StoreWrite(f, dirs, entry.destination, content.val, io)
  ELSE [op |-> "create_symlink"] @@
       CreateSymlink(f, dirs, entry.source, entry.destination, io)

\* execute_entry: the store call made for the entry, and what it leaves
ExecuteEntry(m, f, dirs, entry, io) ==
  IF m = "File"
  THEN LET content == StoreRead(f, entry.source) IN
       IF ~content.ok THEN [fs |-> f, dirs |-> dirs, ok |-> FALSE, op |-> "read"]
       ELSE [op |-> "write"] @@ StoreWrite(f, dirs, entry.destination, content.val, io)
  ELSE [op |-> "create_symlink"] @@
       CreateSymlink(f, dirs, entry.source, entry.destination, io)

(***************************************************************************)
(* Initial states                                                          *)
(***************************************************************************)
\* where a symlink found at p may point: the same relative path under another root
LinkTargets(p) == {q \in Paths : q # p /\ q[2] = p[2]}
NodeChoices(p) ==
  {Absent} \cup {File(c) : c \in InitContents} \cup {Link(q) : q \in LinkTargets(p)}
AllNodeChoices == UNION {NodeChoices(p) : p \in Paths}
Populated(f) == {p \in Paths : f[p].kind # "none"}
InitFilesystems(n) ==
  UNION {{[p \in Paths |-> IF p \in S THEN g[p] ELSE Absent] :
            g \in {h \in [S -> AllNodeChoices \ {Absent}] :
                     \A p \in S : h[p] \in NodeChoices(p)}} :
         S \in {T \in SUBSET DataPaths : Cardinality(T) <= n}}

\* the directories the files of a filesystem need
DirsOf(f) == {g \in Groups : \E r \in Rels : f[<<g, r>>].kind # "none"}

NoLine == <<"(nothing read)">>
NoPlanMembers == [kind |-> "(none)", groups |-> <<>>]

InitInvocation ==
  /\ pc = "start"
  /\ direction = "none"
  /\ targets = <<>>
  /\ skip_confirm = FALSE
  /\ plan = <<>>
  /\ cursor = 1
  /\ result = "none"
  /\ ops = <<>>
  /\ input = NoLine
  /\ shown = <<>>
  /\ hinted = FALSE
  /\ out = <<>>
  /\ plan2 = <<>>
  /\ groupResults = <<>>
  /\ planMembers = NoPlanMembers
  /\ planResult = "none"
  /\ outside = <<>>

InitWorld(n) ==
  /\ fs \in InitFilesystems(n)
  /\ fs0 = fs
  /\ groupDirs = DirsOf(fs)
  /\ mode \in {"File", "Link"}
  /\ resolvers \in [Groups -> ResolverValues]

Init == InitWorld(MaxFiles) /\ InitInvocation

InitStatus == InitWorld(MaxStatusFiles) /\ InitInvocation

(***************************************************************************)
(* main.rs: run_import / run_export up to the first prompt                 *)
(***************************************************************************)
\* the group lists resolve_groups can yield: one group, or a plan's groups in
\* the order the plan lists them (or the map yields them)
TargetLists == {<<g>> : g \in Groups} \cup {t \in Groups \X Groups : t[1] # t[2]}

world == <<fs, groupDirs, mode, resolvers, fs0>>
statusVars == <<groupResults, planMembers, planResult>>

\* run_import / run_export: build the plan of every group, then Executor::run:
\* display the plan, return when it has no changes, else go on to confirm or
\* straight to execute
\* a run that asks for confirmation whatever skip_confirm is
RunBuilt_AlwaysAsks(built, skip) ==
  IF ~built.ok
  THEN /\ plan' = <<>>
       /\ result' = "Err"
       /\ pc' = "done"
       /\ out' = out
  ELSE /\ plan' = built.val
       /\ LET shownPlan ==
                IF IsEmpty(built.val) THEN <<"No files">> ELSE <<"Summary">>
          IN IF ~HasChanges(built.val)
             THEN /\ out' = shownPlan \o <<"Nothing to do">>
                  /\ result' = "Ok"
                  /\ pc' = "done"
             ELSE /\ result' = "none"
                  /\ out' = shownPlan
                  /\ pc' = "confirm"

\* run_import / run_export from the plan on: the error of the loop returned,
\* or Executor::run up to the confirmation
RunBuilt(built, skip) ==
  IF ~built.ok
  THEN /\ plan' = <<>>
       /\ result' = "Err"
       /\ pc' = "done"
       /\ out' = out
  ELSE /\ plan' = built.val
       /\ LET shownPlan ==
                IF IsEmpty(built.val) THEN <<"No files">> ELSE <<"Summary">>
          IN IF ~HasChanges(built.val)
             THEN /\ out' = shownPlan \o <<"Nothing to do">>
                  /\ result' = "Ok"
                  /\ pc' = "done"
             ELSE /\ result' = "none"
                  /\ IF skip
                     THEN /\ out' = shownPlan \o <<"Executing">>
                          /\ pc' = "execute"
                     ELSE /\ out' = shownPlan
                          /\ pc' = "confirm"

Run(dir, groups, skip) ==
  /\ pc = "start"
  /\ direction' = dir
  /\ targets' = groups
  /\ skip_confirm' = skip
  /\ RunBuilt(BuildPlan(mode, fs, resolvers, dir, groups, <<>>), skip)
  /\ UNCHANGED <<world, outside, cursor, ops, input, shown, hinted, plan2, statusVars>>

RunImport == \E groups \in TargetLists, skip \in BOOLEAN : Run("import", groups, skip)
RunExport == \E groups \in TargetLists, skip \in BOOLEAN : Run("export", groups, skip)

(***************************************************************************)
(* Executor::confirm: one line read and dispatched                         *)
(***************************************************************************)
Confirm(line) ==
  /\ pc = "confirm"
  /\ input' = line
  /\ LET command == ConfirmCommand(line)
         diffs == ShowDiffs(mode, fs, DiffList(plan), <<>>)
     IN CASE command = "proceed" ->
               /\ pc' = "execute"
               /\ out' = out \o <<"Executing">>
               /\ UNCHANGED <<result, shown, hinted>>
          [] command = "abort" ->
               /\ pc' = "done"
               /\ result' = "Ok"
               /\ out' = out \o <<"Aborted">>
               /\ UNCHANGED <<shown, hinted>>
          [] command = "diff" ->
               /\ shown' = diffs.shown
               /\ hinted' = FALSE
               /\ IF diffs.ok
                  THEN UNCHANGED <<pc, result>>
                  ELSE pc' = "done" /\ result' = "Err"
               /\ out' = out
          [] OTHER ->
               /\ hinted' = TRUE
               /\ shown' = <<>>
               /\ UNCHANGED <<pc, result, out>>
  /\ UNCHANGED <<world, outside, direction, targets, skip_confirm, plan, cursor, ops, plan2,
                 statusVars>>

\* an import or export is answered with y or n
Answers == {<<"y", "\n">>, <<"n", "\n">>}
ConfirmLine == \E line \in Answers : Confirm(line)

\* the lines read_line can yield at the prompt: up to MaxLineLen typed
\* characters and the newline, or nothing at the end of the input
TypedKeys == {"y", "n", "D", "x", " "}
Typed == UNION {[1..n -> TypedKeys] : n \in 0..MaxLineLen}
Lines == {Append(s, "\n") : s \in Typed} \cup {<<>>}
ConfirmAny == \E line \in Lines : Confirm(line)

\* the exports the dialogue is explored on: the files of one group against a
\* target that holds nothing, the same bytes, other bytes, or a dangling link
ConfirmFilesystems ==
  {[p \in Paths |->
      CASE p = <<"bash", "a">> -> File(Text)
        [] p = <<"bash", "b">> -> sb
        [] p = <<TargetRoot, "a">> -> da
        [] p = <<TargetRoot, "b">> -> db
        [] OTHER -> Absent] :
     sb \in {Absent, File(Text)},
     da \in {Absent, File(Text), File(Binary), Link(<<"vim", "a">>)},
     db \in {Absent, File(Text), File(Binary), Link(<<"vim", "b">>)}}

\* flush()? or read_line()? fails (a closed stream, input that is not UTF-8):
\* confirm returns the error, no line is dispatched
ReadFailed == <<"(read failed)">>
ConfirmReadFails ==
  /\ pc = "confirm"
  /\ input' = ReadFailed
  /\ pc' = "done"
  /\ result' = "Err"
  /\ UNCHANGED <<world, outside, direction, targets, skip_confirm, plan, cursor, ops, shown,
                 hinted, out, plan2, statusVars>>

InitConfirm ==
  /\ fs \in ConfirmFilesystems
  /\ fs0 = fs
  /\ groupDirs = DirsOf(fs)
  /\ mode \in {"File", "Link"}
  /\ resolvers = [g \in Groups |-> TargetRoot]
  /\ InitInvocation

RunConfirm == Run("export", <<"bash">>, FALSE)

(***************************************************************************)
(* Executor::execute: one entry per step                                   *)
(***************************************************************************)
ExecuteStep ==
  /\ pc = "execute"
  /\ cursor <= Len(Worklist(plan))
  /\ \E io \in IoOutcomes :
       LET entry == Worklist(plan)[cursor]
           done == ExecuteEntry(mode, fs, groupDirs, entry, io)
       IN /\ fs' = done.fs
          /\ groupDirs' = done.dirs
          /\ ops' = Append(ops, [op |-> done.op, source |-> entry.source,
                                 destination |-> entry.destination, ok |-> done.ok])
          /\ IF done.ok
             THEN cursor' = cursor + 1 /\ UNCHANGED <<pc, result>>
             ELSE cursor' = cursor /\ pc' = "done" /\ result' = "Err"
  /\ UNCHANGED <<mode, resolvers, fs0, outside, direction, targets, skip_confirm, plan, input,
                 shown, hinted, out, plan2, statusVars>>

\* execute() has applied every entry: run prints Done and returns Ok
ExecuteReturn ==
  /\ pc = "execute"
  /\ cursor > Len(Worklist(plan))
  /\ pc' = "done"
  /\ result' = "Ok"
  /\ out' = out \o <<"Done">>
  /\ UNCHANGED <<world, outside, direction, targets, skip_confirm, plan, cursor, ops, input,
                 shown, hinted, plan2, statusVars>>

\* the next invocation with the same arguments builds its plan
Rebuild ==
  /\ pc = "done"
  /\ ops # <<>>
  /\ plan2' = BuildPlan(mode, fs, resolvers, direction, targets, <<>>).val
  /\ pc' = "rebuilt"
  /\ UNCHANGED <<world, outside, direction, targets, skip_confirm, plan, cursor, result, ops,
                 input, shown, hinted, out, statusVars>>

(***************************************************************************)
(* StatusChecker: check_all_groups group by group, then check_plan          *)
(***************************************************************************)
\* check_all_groups: check_group on the next group in sorted order; the first
\* failure is returned
CheckNextGroup ==
  /\ pc \in {"start", "checking"}
  /\ LET group_name == GroupOrder[Len(groupResults) + 1]
         r == CheckGroup(mode, fs, groupDirs, resolvers, group_name)
     IN IF r.ok
        THEN /\ groupResults' = Append(groupResults, r.val)
             /\ pc' = IF Len(groupResults) + 1 = Len(GroupOrder)
                      THEN "checked" ELSE "checking"
             /\ result' = "none"
        ELSE /\ groupResults' = groupResults
             /\ pc' = "done"
             /\ result' = "Err"
  /\ UNCHANGED <<world, outside, direction, targets, skip_confirm, plan, cursor, ops, input,
                 shown, hinted, out, plan2, planMembers, planResult>>

\* the member lists a plan of the configuration may have; "zsh" is a name
\* that is no group of the configuration
MemberNames == Groups \cup {"zsh"}
PlanChoices ==
  {UnknownPlan}
  \cup {AllGroupsPlan(o) : o \in {<<"bash", "vim">>, <<"vim", "bash">>}}
  \cup {ListedPlan(<<>>)}
  \cup {ListedPlan(<<g>>) : g \in MemberNames}
  \cup {ListedPlan(t) : t \in {u \in MemberNames \X MemberNames : u[1] # u[2]}}

CheckOnePlan ==
  /\ pc = "checked"
  /\ \E members \in PlanChoices :
       /\ planMembers' = members
       /\ planResult' = CheckPlan(members, groupResults)
  /\ pc' = "done"
  /\ result' = "Ok"
  /\ UNCHANGED <<world, outside, direction, targets, skip_confirm, plan, cursor, ops, input,
                 shown, hinted, out, plan2, groupResults>>

(***************************************************************************)
(* Specifications: an import or export; a status check                     *)
(***************************************************************************)
Next ==
  \/ RunImport
  \/ RunExport
  \/ ConfirmLine
  \/ ExecuteStep
  \/ ExecuteReturn
  \/ Rebuild

Spec == Init /\ [][Next]_vars

NextStatus ==
  \/ CheckNextGroup
  \/ CheckOnePlan

SpecStatus == InitStatus /\ [][NextStatus]_vars

(***************************************************************************)
(* Plan: any sequence of add_group calls on a new plan                     *)
(***************************************************************************)
EmptyFilesystem == [p \in Paths |-> Absent]

InitPlan ==
  /\ fs = EmptyFilesystem
  /\ fs0 = fs
  /\ groupDirs = {}
  /\ mode = "File"
  /\ resolvers = [g \in Groups |-> TargetRoot]
  /\ InitInvocation
  /\ plan = NewPlan

\* the entry lists a caller can hand to add_group: any statuses, in any order
EntryOf(group_name, status) ==
  [relative_path |-> "a", source |-> <<group_name, "a">>,
   destination |-> <<TargetRoot, "a">>, status |-> status]
EntryLists(group_name) ==
  UNION {{[i \in 1..n |-> EntryOf(group_name, st[i])] : st \in [1..n -> FileStatus]} :
         n \in 0..MaxEntries}

AddOneGroup ==
  /\ pc = "start"
  /\ Len(plan) < MaxPlanGroups
  /\ \E group_name \in Groups : \E entries \in EntryLists(group_name) :
       plan' = AddGroup(plan, group_name, entries)
  /\ UNCHANGED <<world, outside, pc, direction, targets, skip_confirm, cursor, result, ops,
                 input, shown, hinted, out, plan2, statusVars>>

NextPlan == AddOneGroup

SpecPlan == InitPlan /\ [][NextPlan]_vars

(***************************************************************************)
(* A group with an ignore-rule file: import or export, then a status check *)
(***************************************************************************)
\* the lines a rule file is written from: patterns, negations, a comment, an
\* inline comment, and a glob that does not compile
RuleLines ==
  {Bytes(l) : l \in {<<"a">>, <<"!", "a">>, <<"*">>, <<"!", ".", "*">>, <<"#", "a">>,
                     <<"b", " ", "#", "a">>, <<"!", "b", " ", "#", "a">>, <<"[">>}}

RECURSIVE JoinLines(_)
JoinLines(lines) ==
  IF lines = <<>> THEN <<>>
  ELSE Head(lines) \o <<Byte("\n")>> \o JoinLines(Tail(lines))

RuleTexts == UNION {{JoinLines(ls) : ls \in [1..n -> RuleLines]} : n \in 0..MaxRuleLines}

\* the rule file of the group: missing, a text, bytes that are no text, or a
\* link that leads nowhere
RuleFileNodes ==
  {Absent, File(Binary), Link(<<"vim", RuleFile>>)} \cup {File(t) : t \in RuleTexts}

RulesFilesystems ==
  {[p \in Paths |->
      CASE p = <<"bash", RuleFile>> -> rf
        [] p = <<"bash", "a">> -> sa
        [] p = <<"bash", "b">> -> sb
        [] p = <<TargetRoot, "a">> -> da
        [] p = <<TargetRoot, "b">> -> db
        [] OTHER -> Absent] :
     rf \in RuleFileNodes,
     sa \in {File(Text), Link(<<TargetRoot, "a">>)},
     sb \in {Absent, File(Text)},
     da \in {Absent, File(Text), File(Binary)},
     db \in {Absent, File(Text)}}

InitRules ==
  /\ fs \in RulesFilesystems
  /\ fs0 = fs
  /\ groupDirs = DirsOf(fs)
  /\ mode \in {"File", "Link"}
  /\ resolvers = [g \in Groups |-> TargetRoot]
  /\ InitInvocation

RunRulesImport == Run("import", <<"bash">>, TRUE)
RunRulesExport == Run("export", <<"bash">>, TRUE)

\* what check_group returned, when it failed
CheckError(group_name) == [name |-> group_name, status |-> "Err", files |-> <<>>]

\* a status check of the group, before or after the import or export
CheckOneGroup ==
  /\ pc \in {"start", "done"}
  /\ LET r == CheckGroup(mode, fs, groupDirs, resolvers, "bash") IN
     groupResults' = <<IF r.ok THEN r.val ELSE CheckError("bash")>>
  /\ pc' = "status"
  /\ UNCHANGED <<world, outside, direction, targets, skip_confirm, plan, cursor, result, ops,
                 input, shown, hinted, out, plan2, planMembers, planResult>>

NextRules ==
  \/ RunRulesImport
  \/ RunRulesExport
  \/ ExecuteStep
  \/ ExecuteReturn
  \/ CheckOneGroup

SpecRules == InitRules /\ [][NextRules]_vars

(***************************************************************************)
(* An export applied while another process writes into the target          *)
(***************************************************************************)
RunRace == Run("export", <<"bash">>, TRUE)

\* what the other process leaves at a path of the target
OutsideNodes == {Absent, File(Text), File(Binary)}

\* a second invocation, or any other process, changes a file of the target
\* after the plan was built: the executor holds no lock and takes no snapshot
OutsideWrite ==
  /\ pc = "execute"
  /\ Len(outside) < MaxOutsideWrites
  /\ \E r \in Rels \ {RuleFile}, node \in OutsideNodes :
       /\ fs[<<TargetRoot, r>>] # node
       /\ fs' = [fs EXCEPT ![<<TargetRoot, r>>] = node]
       /\ outside' = Append(outside, [path |-> <<TargetRoot, r>>, node |-> node])
  /\ UNCHANGED <<groupDirs, mode, resolvers, fs0, pc, direction, targets, skip_confirm,
                 plan, cursor, result, ops, input, shown, hinted, out, plan2, statusVars>>

NextRace ==
  \/ RunRace
  \/ OutsideWrite
  \/ ExecuteStep
  \/ ExecuteReturn

SpecRace == InitConfirm /\ [][NextRace]_vars

(***************************************************************************)
(* An export to a target that may hold dangling symlinks, with a status    *)
(* check of the group before or after it                                   *)
(***************************************************************************)
RunDangling == Run("export", <<"bash">>, TRUE)

NextDangling ==
  \/ RunDangling
  \/ ExecuteStep
  \/ ExecuteReturn
  \/ CheckOneGroup

SpecDangling == InitConfirm /\ [][NextDangling]_vars

(***************************************************************************)
(* Imports and exports of one or two groups, each with its own resolver    *)
(* and rule file                                                           *)
(***************************************************************************)
\* a rule file with one pattern, and one whose glob does not compile
GoodRules == Bytes(<<"b", "\n">>)
BadRules == Bytes(<<"[", "\n">>)

BuildFilesystems ==
  {[p \in Paths |->
      CASE p = <<"bash", "a">> -> File(Text)
        [] p = <<"vim", "a">> -> va
        [] p = <<"bash", RuleFile>> -> br
        [] p = <<"vim", RuleFile>> -> vr
        [] p = <<TargetRoot, "a">> -> da
        [] OTHER -> Absent] :
     va \in {Absent, File(Binary)},
     br \in {Absent, File(GoodRules), File(BadRules), File(Binary)},
     vr \in {Absent, File(BadRules)},
     da \in {Absent, File(Text), File(Binary)}}

InitBuild ==
  /\ fs \in BuildFilesystems
  /\ fs0 = fs
  /\ groupDirs = DirsOf(fs)
  /\ mode \in {"File", "Link"}
  /\ resolvers \in [Groups -> ResolverValues]
  /\ InitInvocation

NextBuild ==
  \/ RunImport
  \/ RunExport
  \/ ConfirmLine
  \/ ExecuteStep
  \/ ExecuteReturn

SpecBuild == InitBuild /\ [][NextBuild]_vars

(***************************************************************************)
(* An export with or without confirmation, the dialogue, and execute       *)
(***************************************************************************)
RunSkipConfirm == Run("export", <<"bash">>, TRUE)

NextAbort ==
  \/ RunConfirm
  \/ RunSkipConfirm
  \/ ConfirmAny
  \/ ConfirmReadFails
  \/ ExecuteStep
  \/ ExecuteReturn

SpecAbort == InitConfirm /\ [][NextAbort]_vars

NextConfirm ==
  \/ RunConfirm
  \/ ConfirmAny
  \/ ConfirmReadFails

SpecConfirm == InitConfirm /\ [][NextConfirm]_vars


(***************************************************************************)
(* Claims                                                                  *)
(***************************************************************************)
PlanEntries(p) ==
  UNION {{p[i].entries[j] : j \in 1..Len(p[i].entries)} : i \in 1..Len(p)}

\* what a read of p yields in f, for a p that exists
ContentAt(f, p) == f[Resolve(f, p)].content

\* the classification the specification gives a source file and a destination
\* whose content, when it exists, can be read
Classified(m, f, source, destination, status) ==
  /\ ~StoreExists(m, f, destination) => status = "Create"
  /\ (StoreExists(m, f, destination) /\ PathExists(f, destination)
        /\ ContentAt(f, destination) = ContentAt(f, source)) => status = "Same"
  /\ (StoreExists(m, f, destination) /\ PathExists(f, destination)
        /\ ContentAt(f, destination) # ContentAt(f, source)) => status = "Overwrite"

\* C1: compute_status(source, destination) is Create when the store does not
\* find the destination, Same when the destination exists with the bytes of
\* the source, Overwrite when it exists with other bytes; for every pair of
\* paths of the filesystem, and for every entry of a plan on the filesystem
\* the plan was built on.
C1_ComputeStatus ==
  /\ \A source, destination \in Paths :
       (pc \in {"start", "rebuilt"} /\ fs[source].kind = "file") =>
         Classified(mode, fs, source, destination,
                    ComputeStatus(mode, fs, source, destination))
  /\ \A e \in PlanEntries(plan) :
       Classified(mode, fs0, e.source, e.destination, e.status)

\* a plan that overwrote a destination with a binary payload and created
\* another destination, after which source and destination classify as Same
C1_Witness ==
  /\ pc = "done" /\ result = "Ok"
  /\ \E e \in PlanEntries(plan) :
       e.status = "Overwrite" /\ ContentAt(fs0, e.source) = Binary
  /\ \E e \in PlanEntries(plan) : e.status = "Create"
  /\ \E s, d \in Paths :
       fs[s].kind = "file" /\ s # d /\ ComputeStatus(mode, fs, s, d) = "Same"


FileStates(r) == {r.files[i].state : i \in 1..Len(r.files)}
Results == {groupResults[i] : i \in 1..Len(groupResults)}

Present(r) == resolvers[r.name] = TargetRoot /\ r.name \in groupDirs

\* C3: for a group directory that exists, check_group reports New when the
\* file list is empty, InSync when every file of a non-empty list is InSync,
\* and OutOfSync when some file is Modified, whatever the other files are.
C3_GroupAggregation ==
  \A r \in Results :
    Present(r) =>
      /\ Len(r.files) = 0 => r.status = "New"
      /\ FileStates(r) = {"InSync"} => r.status = "InSync"
      /\ "Modified" \in FileStates(r) => r.status = "OutOfSync"

\* a group with a Modified file next to a New one
C3_Witness ==
  \E r \in Results :
    Present(r) /\ FileStates(r) = {"Modified", "New"} /\ r.status = "OutOfSync"

\* the group check_all_groups failed on
FailedGroup == GroupOrder[Len(groupResults) + 1]
CheckFailed == pc = "done" /\ result = "Err" /\ planMembers = NoPlanMembers

\* C4 as claimed: check_group does not fail in the two degraded states: a
\* failed resolver lookup gives Skipped and no files, whether or not the group
\* directory exists; a lookup that succeeds with the group directory missing
\* gives New and no files.
C4_Original ==
  /\ \A r \in Results :
       /\ resolvers[r.name] = NoResolver => r.status = "Skipped" /\ r.files = <<>>
       /\ (resolvers[r.name] # NoResolver /\ r.name \notin groupDirs)
            => r.status = "New" /\ r.files = <<>>
  /\ CheckFailed =>
       /\ resolvers[FailedGroup] # NoResolver
       /\ ~(resolvers[FailedGroup] # NoResolver /\ FailedGroup \notin groupDirs)

\* C4 amended: a failed resolver lookup gives Ok, Skipped and no files, whether
\* or not the group directory exists; a lookup that succeeds and whose path
\* expands, with the group directory missing, gives Ok, New and no files.
\* (A resolver string that does not expand fails the check.)
C4_DegradedStates ==
  /\ \A r \in Results :
       /\ resolvers[r.name] = NoResolver => r.status = "Skipped" /\ r.files = <<>>
       /\ (resolvers[r.name] = TargetRoot /\ r.name \notin groupDirs)
            => r.status = "New" /\ r.files = <<>>
  /\ CheckFailed => resolvers[FailedGroup] = BadResolver

\* one group without the resolver and without a directory, the other with the
\* resolver and without a directory
C4_Witness ==
  /\ pc = "checked"
  /\ \E r \in Results :
       resolvers[r.name] = NoResolver /\ r.name \notin groupDirs /\ r.status = "Skipped"
  /\ \E r \in Results :
       resolvers[r.name] = TargetRoot /\ r.name \notin groupDirs /\ r.status = "New"

\* the statuses of the member groups that take part in a plan
Participating(members) ==
  {r.status : r \in {x \in Results : x.name \in members /\ x.status # "Skipped"}}

ExpectedPlanStatus(members) ==
  LET P == Participating(members) IN
  IF "OutOfSync" \in P THEN "OutOfSync"
  ELSE IF "New" \in P THEN "New"
  ELSE IF P # {} THEN "InSync"
  ELSE "Skipped"

Members(pm) == {pm.groups[i] : i \in 1..Len(pm.groups)}
Reverse(s) == [i \in 1..Len(s) |-> s[Len(s) + 1 - i]]

\* C5: check_plan ignores Skipped members; the plan is OutOfSync if a member
\* that takes part is OutOfSync, else New if one is New, else InSync if some
\* member takes part, and Skipped if none does (all Skipped, no members, or an
\* unknown plan); the order of the members does not matter.
C5_PlanAggregation ==
  planMembers # NoPlanMembers =>
    /\ planResult = ExpectedPlanStatus(Members(planMembers))
    /\ planResult = CheckPlan([planMembers EXCEPT !.groups = Reverse(@)], groupResults)

\* a plan of an InSync group listed before an OutOfSync one
C5_Witness ==
  /\ planMembers.kind = "listed" /\ Len(planMembers.groups) = 2
  /\ \E r \in Results : r.name = planMembers.groups[1] /\ r.status = "InSync"
  /\ \E r \in Results : r.name = planMembers.groups[2] /\ r.status = "OutOfSync"
  /\ planResult = "OutOfSync"


\* the entries of a plan that are not Same, group after group and entry after
\* entry
RECURSIVE NonSame(_)
NonSame(p) ==
  IF p = <<>> THEN <<>>
  ELSE SelectSeq(Head(p).entries, LAMBDA e : e.status # "Same") \o NonSame(Tail(p))

\* the filesystem after the first n of the entries have been applied with
\* success, one after the other
RECURSIVE Applied(_, _, _, _)
Applied(m, f, entries, n) ==
  IF n = 0 THEN f
  ELSE ExecuteEntry(m, Applied(m, f, entries, n - 1), {}, entries[n], "ok").fs

ExecuteFailed == ops # <<>> /\ ~ops[Len(ops)].ok

\* C6: execute applies the entries that are not Same in group order, then
\* entry order; only its last call can have failed, and then it has returned
\* the error, the filesystem is the one the entries before the failed one
\* leave (nothing rolled back) but for the destination of the failed one, and
\* no later entry was touched.
C6_FailFastInOrder ==
  LET todo == NonSame(plan) IN
  /\ Len(ops) <= Len(todo)
  /\ \A i \in 1..Len(ops) :
       /\ ops[i].source = todo[i].source
       /\ ops[i].destination = todo[i].destination
       /\ i < Len(ops) => ops[i].ok
  /\ ~ExecuteFailed => fs = Applied(mode, fs0, todo, Len(ops))
  /\ ExecuteFailed =>
       /\ pc \in {"done", "rebuilt"} /\ result = "Err"
       /\ LET before == Applied(mode, fs0, todo, Len(ops) - 1)
              failed == todo[Len(ops)]
          IN \A p \in Paths \ {failed.destination, Resolve(before, failed.destination)} :
               fs[p] = before[p]

\* the second of four entries failed: the first stays applied, the third and
\* fourth, in the next group, were not touched
C6_Witness ==
  /\ ExecuteFailed /\ Len(ops) = 2 /\ Len(NonSame(plan)) = 4
  /\ Len(plan) = 2 /\ GroupHasChanges(plan[1]) /\ GroupHasChanges(plan[2])
  /\ fs[ops[1].destination] # fs0[ops[1].destination]
  /\ fs[NonSame(plan)[3].destination] = fs0[NonSame(plan)[3].destination]

\* no later call of execute names the destination of call i
LastOn(i) == \A j \in (i + 1)..Len(ops) : ops[j].destination # ops[i].destination
Destinations == {ops[i].destination : i \in 1..Len(ops)}

\* C7: in link mode execute never calls Store.write: every entry is applied by
\* create_symlink, after which the destination is a symlink to the entry's
\* source; what was at the destination is removed, nothing is written through
\* it, so every other path is as it was.
C7_LinkModeSymlinks ==
  mode = "Link" =>
    /\ \A i \in 1..Len(ops) :
         /\ ops[i].op = "create_symlink"
         /\ (ops[i].ok /\ LastOn(i)) => fs[ops[i].destination] = Link(ops[i].source)
    /\ \A p \in Paths \ Destinations : fs[p] = fs0[p]

\* a regular file with other content was at the destination and is now a
\* symlink to the source
C7_Witness ==
  /\ mode = "Link" /\ pc = "done" /\ result = "Ok"
  /\ \E i \in 1..Len(ops) :
       /\ fs0[ops[i].destination].kind = "file"
       /\ fs0[ops[i].destination].content # fs0[ops[i].source].content
       /\ fs[ops[i].destination] = Link(ops[i].source)


\* execute() ran to its end and run returned Ok
Executed == pc \in {"done", "rebuilt"} /\ result = "Ok" /\ ops # <<>>

\* the entry's destination holds the bytes of its source
Matches(f, e) ==
  PathExists(f, e.destination) /\ ContentAt(f, e.destination) = ContentAt(f, e.source)

\* C8 as claimed: in copy mode, after execute returns Ok, the destination of
\* every Create or Overwrite entry exists with the bytes of its source, and
\* the destination of every Same entry and every source file are as they were.
C8_Original ==
  (mode = "File" /\ Executed) =>
    \A e \in PlanEntries(plan) :
      /\ e.status # "Same" => Matches(fs, e)
      /\ e.status = "Same" => fs[e.destination] = fs0[e.destination]
      /\ fs[e.source] = fs0[e.source]

\* the file a write to the entry's destination lands in
WriteTarget(e) == Resolve(fs0, e.destination)

\* no entry of the plan writes a file that is another entry's destination or
\* a source of the plan
SeparateWrites ==
  \A e \in PlanEntries(plan) :
    e.status # "Same" =>
      \A o \in PlanEntries(plan) \ {e} :
        WriteTarget(e) \notin {o.source, o.destination, WriteTarget(o)}

\* C8 amended: in copy mode, after execute returns Ok on a plan none of whose
\* entries writes a file that is another entry's destination (the same path,
\* or reached through a symlink) or a source of the plan, the destination of
\* every Create or Overwrite entry exists with the bytes of its source, and
\* the destination of every Same entry and every source file are as they were.
C8_CopyModeResult ==
  (mode = "File" /\ Executed /\ SeparateWrites) =>
    \A e \in PlanEntries(plan) :
      /\ e.status # "Same" => Matches(fs, e)
      /\ e.status = "Same" => fs[e.destination] = fs0[e.destination]
      /\ fs[e.source] = fs0[e.source]

\* a copy-mode run that created one destination, overwrote another and left
\* a Same one alone
C8_Witness ==
  /\ mode = "File" /\ Executed /\ SeparateWrites
  /\ \E e \in PlanEntries(plan) :
       e.status = "Overwrite" /\ Matches(fs, e) /\ ~Matches(fs0, e)
  /\ \E e \in PlanEntries(plan) : e.status = "Create" /\ Matches(fs, e)

\* the entry of plan2 for the same source and destination
Again(e) == {x \in PlanEntries(plan2) : x.source = e.source /\ x.destination = e.destination}

Blank(line) == \A i \in 1..Len(line) : line[i] \in {" ", "\n"}

\* the line is the one letter, in either case, with whitespace around it
Says(line, lower, upper) ==
  \E i \in 1..Len(line) :
    /\ line[i] \in {lower, upper}
    /\ \A j \in 1..Len(line) : j # i => line[j] \in {" ", "\n"}

\* a line has been read at the prompt
Answered == input \notin {NoLine, ReadFailed}

Proceeded == pc = "execute" /\ out[Len(out)] = "Executing"
AbortedRun == pc = "done" /\ result = "Ok" /\ out[Len(out)] = "Aborted"
Reprompted == pc = "confirm" /\ result = "none"

\* the diffs rendered are those of the non-Same entries of the plan, each once
ShownAllChanges ==
  /\ {shown[i] : i \in 1..Len(shown)} = {e \in PlanEntries(plan) : e.status # "Same"}
  /\ \A i, j \in 1..Len(shown) : shown[i] = shown[j] => i = j

\* reading the entry for its diff fails: the symlink store finds a destination
\* that is a dangling link, or the source cannot be read
Unreadable(e) ==
  \/ ~PathExists(fs, e.source)
  \/ mode = "Link" /\ IsSymlink(fs, e.destination) /\ ~PathExists(fs, e.destination)

\* C10 as claimed: after trimming, in either case, 'y' proceeds; 'n' or an
\* empty line aborts; 'd' shows the diff of every non-Same entry and of no
\* Same entry and prompts again; any other line prints the hint and prompts
\* again.
C10_Original ==
  Answered =>
    /\ Says(input, "y", "Y") => Proceeded
    /\ (Says(input, "n", "N") \/ Blank(input)) => AbortedRun
    /\ Says(input, "d", "D") => (Reprompted /\ ShownAllChanges /\ ~hinted)
    /\ ~(Says(input, "y", "Y") \/ Says(input, "n", "N") \/ Blank(input)
           \/ Says(input, "d", "D")) => (Reprompted /\ hinted /\ shown = <<>>)

\* C10 amended: the same, except that 'd' on a plan with a non-Same entry
\* whose source or destination cannot be read (a destination that is a
\* dangling symlink, under the symlink store) makes confirm return that error
\* after the diffs of the entries before it, instead of prompting again.
C10_ConfirmDispatch ==
  Answered =>
    /\ Says(input, "y", "Y") => Proceeded
    /\ (Says(input, "n", "N") \/ Blank(input)) => AbortedRun
    /\ Says(input, "d", "D") =>
         /\ ~hinted
         /\ \A i \in 1..Len(shown) : shown[i] = DiffList(plan)[i] /\ ~Unreadable(shown[i])
         /\ IF \E e \in PlanEntries(plan) : e.status # "Same" /\ Unreadable(e)
            THEN /\ pc = "done" /\ result = "Err"
                 /\ Len(shown) < Len(DiffList(plan))
                 /\ Unreadable(DiffList(plan)[Len(shown) + 1])
            ELSE Reprompted /\ ShownAllChanges
    /\ ~(Says(input, "y", "Y") \/ Says(input, "n", "N") \/ Blank(input)
           \/ Says(input, "d", "D")) => (Reprompted /\ hinted /\ shown = <<>>)

\* " D" typed on a plan with a Same entry and an entry to overwrite: the one
\* diff is shown and the prompt returns
C10_Witness ==
  /\ input = <<" ", "D", "\n">>
  /\ Reprompted /\ ShownAllChanges /\ Len(shown) = 1
  /\ shown[1].status = "Overwrite"
  /\ \E e \in PlanEntries(plan) : e.status = "Same"


\* the line is one of those the claim lets confirm return on
Returning(line) == Says(line, "y", "Y") \/ Says(line, "n", "N") \/ Blank(line)

\* confirm returns in this step
ConfirmReturns == pc = "confirm" /\ pc' # "confirm"

\* some entry whose diff 'd' renders cannot be read
DiffFails == \E e \in PlanEntries(plan) : e.status # "Same" /\ Unreadable(e)

\* C11 as claimed: confirm returns only on a line that is 'y', 'n' or empty;
\* no other line, and no failure while rendering a diff, makes it return.
C11_Original ==
  [][ConfirmReturns => (input' # ReadFailed /\ Returning(input'))]_vars

\* C11 amended: the loop has no iteration bound: any 'd' whose diffs can be
\* read and any invalid line leave confirm at the prompt with the plan and the
\* filesystem untouched; and confirm returns only on 'y', 'n' or an empty
\* line, or with the error of a failed prompt read or of a 'd' whose diff
\* could not be read.
C11_ReturnsOnlyOn ==
  [][/\ ConfirmReturns =>
          \/ input' # ReadFailed /\ Returning(input')
          \/ result' = "Err" /\ input' = ReadFailed
          \/ result' = "Err" /\ input' # ReadFailed /\ Says(input', "d", "D") /\ DiffFails
     /\ (pc = "confirm" /\ input' # ReadFailed /\ ~Returning(input')
           /\ ~(Says(input', "d", "D") /\ DiffFails)) =>
          (pc' = "confirm" /\ result' = result /\ plan' = plan /\ fs' = fs)
    ]_vars

\* 'D' on a link-mode plan whose second entry has a dangling destination: one
\* diff was shown and confirm returned the error
C11_Witness ==
  /\ pc = "done" /\ result = "Err" /\ mode = "Link"
  /\ input = <<"D", "\n">> /\ Len(shown) = 1 /\ DiffFails


\* Executor::run was entered: the plan was built and displayed
Ran == direction # "none" /\ out # <<>>

SomeChange == \E e \in PlanEntries(plan) : e.status # "Same"

\* C12: run on a plan with no entry, or with no non-Same entry, reports that
\* there is nothing to do and returns Ok without reading a line and without
\* applying anything, whatever skip_confirm is; a line is read only when the
\* plan has a change and skip_confirm is false, and then one is asked for.
C12_NothingToDo ==
  Ran =>
    /\ PlanEntries(plan) = {} => out[1] = "No files"
    /\ ~SomeChange =>
         /\ pc = "done" /\ result = "Ok"
         /\ Len(out) = 2 /\ out[2] = "Nothing to do"
         /\ input = NoLine /\ ops = <<>> /\ fs = fs0
    /\ input # NoLine => (SomeChange /\ ~skip_confirm)
    /\ (SomeChange /\ ~skip_confirm) => (pc = "confirm" \/ input # NoLine)
    /\ (SomeChange /\ skip_confirm) => (input = NoLine /\ pc # "confirm")

\* a run with skip_confirm on two groups, one without files and one whose
\* file is Same: the summary, then nothing to do
C12_Witness ==
  /\ Ran /\ skip_confirm /\ Len(plan) = 2
  /\ PlanEntries(plan) # {}
  /\ ~SomeChange
  /\ out = <<"Summary", "Nothing to do">> /\ pc = "done"


\* every entry of the plan, with its place: group index and entry index
Places(p) == {ij \in (1..Len(p)) \X (1..(MaxEntries + 1)) : ij[2] <= Len(p[ij[1]].entries)}
StatusAt(p, ij) == p[ij[1]].entries[ij[2]].status

\* C13: for every plan made by add_group calls, has_changes() is true iff
\* some entry of some group is not Same; is_empty() is true iff every group
\* has no entry; is_empty() implies not has_changes(); and the counts of Same,
\* Create and Overwrite entries add up to the number of entries.
C13_PlanPredicates ==
  /\ HasChanges(plan) <=> (\E ij \in Places(plan) : StatusAt(plan, ij) # "Same")
  /\ IsEmpty(plan) <=> Places(plan) = {}
  /\ IsEmpty(plan) => ~HasChanges(plan)
  /\ TotalCountByStatus(plan, "Same") + TotalCountByStatus(plan, "Create")
       + TotalCountByStatus(plan, "Overwrite") = Cardinality(Places(plan))
  /\ \A st \in FileStatus :
       TotalCountByStatus(plan, st)
         = Cardinality({ij \in Places(plan) : StatusAt(plan, ij) = st})

\* the converse fails: a plan of two groups, one without entries and one with
\* two Same entries, is change-free and not empty
C13_Witness ==
  /\ Len(plan) = 2
  /\ plan[1].entries = <<>> /\ Len(plan[2].entries) = 2
  /\ ~HasChanges(plan) /\ ~IsEmpty(plan)
  /\ TotalCountByStatus(plan, "Same") = 2


\* the rule set the invocation loaded for the group (an error when the load
\* failed)
Loaded == Load(fs0, <<"bash", RuleFile>>)

\* the indices of the patterns that match the path
Matching(rules, rel) ==
  {i \in 1..Len(rules) : GlobMatches(rules[i].pattern, RelText(rel))}
Last(S) == CHOOSE i \in S : \A j \in S : j <= i

\* last match wins
IgnoredByLastMatch(rules, rel) ==
  Matching(rules, rel) # {} /\ ~rules[Last(Matching(rules, rel))].negated

\* the plan was built
Built == direction # "none" /\ out # <<>>

\* C14: is_ignored(path) is the negation of the negated flag of the last
\* pattern, in file order, that matches the path, and false when no pattern
\* matches; is_included is its complement; and a plan holds no entry for a
\* path that is ignored in this sense.
C14_LastMatchWins ==
  LET loaded == Loaded IN
  (pc \in {"start", "execute"} /\ loaded.ok) =>
    /\ \A rel \in Rels :
         /\ IsIgnored(loaded.val, RelText(rel)) <=> IgnoredByLastMatch(loaded.val, rel)
         /\ IsIncluded(loaded.val, RelText(rel)) <=> ~IsIgnored(loaded.val, RelText(rel))
         /\ Matching(loaded.val, rel) = {} => IsIncluded(loaded.val, RelText(rel))
    /\ Built => \A e \in PlanEntries(plan) : ~IgnoredByLastMatch(loaded.val, e.relative_path)

\* an export under the rules "*" then "!a": both match a and the later one
\* wins, so a is in the plan, and b, a file of the group, is not
C14_Witness ==
  /\ Built /\ direction = "export" /\ Loaded.ok /\ Len(Loaded.val) = 2
  /\ Matching(Loaded.val, "a") = {1, 2}
  /\ ~Loaded.val[1].negated /\ Loaded.val[2].negated
  /\ fs0[<<"bash", "b">>].kind = "file"
  /\ {e.relative_path : e \in PlanEntries(plan)} = {"a"}


RulePath == <<"bash", RuleFile>>

\* the rule file exists and is no text, or has a line whose glob is invalid
Unloadable(f) ==
  /\ PathExists(f, RulePath)
  /\ \/ ~IsUtf8(ContentAt(f, RulePath))
     \/ \E line \in {SplitLines(ContentAt(f, RulePath), <<>>)[i] :
                       i \in 1..Len(SplitLines(ContentAt(f, RulePath), <<>>))} :
          LET t == TrimBytes(line) IN
          /\ t # <<>> /\ Head(t) # Byte("#")
          /\ \E k \in 1..Len(t) :
               /\ t[k] = Byte("[")
               /\ \A j \in 1..(k - 1) : ~(t[j] = Byte(" ") /\ t[j + 1] = Byte("#"))

\* C15: load gives the empty rule set, under which every path is included,
\* when the rule file does not exist; it fails only when the file exists and
\* cannot be read as text or holds a line whose glob is invalid; and then the
\* import or export ends with the error, no plan built, nothing written.
C15_LoadMissingOrError ==
  LET loaded == Loaded IN
  /\ pc \in {"start", "done"} =>
       /\ ~PathExists(fs0, RulePath) =>
            (loaded = Ok(NoRules) /\ \A rel \in Rels : IsIncluded(loaded.val, RelText(rel)))
       /\ ~loaded.ok <=> Unloadable(fs0)
  /\ (~loaded.ok /\ direction # "none") =>
       /\ result = "Err" /\ pc \in {"done", "status"}
       /\ plan = <<>> /\ out = <<>> /\ ops = <<>> /\ fs = fs0

\* an export of a group whose file differs from the target, under a rule file
\* whose second line is "[": the run ended with the error and wrote nothing
C15_Witness ==
  /\ direction = "export" /\ pc = "done" /\ result = "Err"
  /\ PathExists(fs0, RulePath)
  /\ Len(SplitLines(ContentAt(fs0, RulePath), <<>>)) = 2
  /\ SplitLines(ContentAt(fs0, RulePath), <<>>)[2] = <<Byte("[")>>
  /\ fs0[<<TargetRoot, "a">>] = Absent /\ fs0[<<"bash", "a">>] = File(Text)
  /\ plan = <<>> /\ fs = fs0


\* C16: a plan built by build_export holds no entry for the rule file of the
\* group directory, whatever the rules say, so an export performs no
\* operation on a rule file in the target and leaves none there.
C16_RuleFileNotExported ==
  direction = "export" =>
    /\ \A e \in PlanEntries(plan) :
         e.relative_path # RuleFile /\ e.source # RulePath
    /\ \A i \in 1..Len(ops) : ops[i].destination[2] # RuleFile
    /\ fs[<<TargetRoot, RuleFile>>] = fs0[<<TargetRoot, RuleFile>>]

\* an export that applied an entry while the rule file of the group is a
\* regular file whose only rule, "!.*", un-ignores it
C16_Witness ==
  /\ direction = "export" /\ pc = "done" /\ result = "Ok" /\ ops # <<>>
  /\ fs0[RulePath].kind = "file" /\ Loaded.ok /\ Len(Loaded.val) = 1
  /\ Loaded.val[1].negated /\ Matching(Loaded.val, RuleFile) = {1}
  /\ RuleFile \in WalkFiles(fs0, "bash")
  /\ fs[<<TargetRoot, RuleFile>>] = Absent


\* byte-wise order of two texts
RECURSIVE LexLess(_, _)
LexLess(a, b) ==
  IF b = <<>> THEN FALSE
  ELSE IF a = <<>> THEN TRUE
  ELSE IF Head(a) # Head(b) THEN Head(a) < Head(b)
  ELSE LexLess(Tail(a), Tail(b))

SourceRoot == IF direction = "export" THEN "bash" ELSE TargetRoot
DestinationRoot == IF direction = "export" THEN TargetRoot ELSE "bash"

\* the relative paths the entry list is to hold
Expected ==
  {r \in Rels :
     /\ fs0[<<SourceRoot, r>>].kind = "file"
     /\ ~IgnoredByLastMatch(Loaded.val, r)
     /\ direction = "export" => r # RuleFile}

\* C17: the entry list of build_import / build_export has exactly one entry
\* for each regular file under the source root whose relative path the rules
\* include (and, for export, is not the rule file), in ascending order of
\* relative path, each with the source root and the destination root joined
\* with its relative path; a symlink gives no entry.
C17_EntryList ==
  (Built /\ ops = <<>>) =>
    LET entries == plan[1].entries IN
    /\ Len(plan) = 1
    /\ {entries[i].relative_path : i \in 1..Len(entries)} = Expected
    /\ Len(entries) = Cardinality(Expected)
    /\ \A i, j \in 1..Len(entries) :
         i < j => LexLess(RelText(entries[i].relative_path), RelText(entries[j].relative_path))
    /\ \A i \in 1..Len(entries) :
         /\ entries[i].source = <<SourceRoot, entries[i].relative_path>>
         /\ entries[i].destination = <<DestinationRoot, entries[i].relative_path>>
         /\ fs0[entries[i].source].kind # "link"

\* an export of a group holding its rule file, which the rule "!.*" includes,
\* a symlink and a file: the one entry is the file's
C17_Witness ==
  /\ Built /\ pc = "execute" /\ cursor = 1 /\ direction = "export"
  /\ fs0[RulePath].kind = "file" /\ Loaded.ok /\ ~IgnoredByLastMatch(Loaded.val, RuleFile)
  /\ Matching(Loaded.val, RuleFile) # {}
  /\ fs0[<<"bash", "a">>].kind = "link" /\ fs0[<<"bash", "b">>].kind = "file"
  /\ Len(plan[1].entries) = 1 /\ plan[1].entries[1].relative_path = "b"


\* the operations performed are those of the non-Same entries as recorded, in
\* order, each the store call of the mode; a run that ends Ok made them all
AppliedAsRecorded ==
  /\ \A i \in 1..Len(ops) :
       /\ ops[i].source = NonSame(plan)[i].source
       /\ ops[i].destination = NonSame(plan)[i].destination
       /\ ops[i].op = IF mode = "File" THEN "write" ELSE "create_symlink"
  /\ (pc = "done" /\ result = "Ok" /\ SomeChange) => Len(ops) = Len(NonSame(plan))

\* a step of execute leaves the destination of every Same entry as it is, and
\* a step that succeeds leaves the source's bytes, or a link to the source, at
\* the destination of its entry; no step changes the plan once it is built
StepAsRecorded ==
  /\ plan # <<>> => plan' = plan
  /\ ops' # ops =>
       /\ \A e \in PlanEntries(plan) :
            e.status = "Same" => fs'[e.destination] = fs[e.destination]
       /\ LET op == ops'[Len(ops')] IN
          op.ok => IF mode = "File"
                   THEN /\ PathExists(fs', op.destination)
                        /\ ContentAt(fs', op.destination) = ContentAt(fs, op.source)
                   ELSE fs'[op.destination] = Link(op.source)

\* C18: execute acts on the statuses recorded when the plan was built: when
\* another process changes the target between build and apply, an entry
\* recorded Same is never written although its destination now differs, an
\* entry recorded Create or Overwrite is written although its destination now
\* exists or is identical, and no step changes the statuses of the plan.
C18_ActsOnRecordedStatus == []AppliedAsRecorded /\ [][StepAsRecorded]_vars

\* after the build another process changed the destination of a Same entry
\* and created the destination of a Create entry with the source's bytes: the
\* run ended Ok, the first still differs, the second was written
C18_Witness ==
  /\ mode = "File" /\ pc = "done" /\ result = "Ok" /\ Len(outside) = 2
  /\ \E e \in PlanEntries(plan) :
       /\ e.status = "Same" /\ ~Matches(fs, e) /\ fs[e.destination] # fs0[e.destination]
       /\ \A i \in 1..Len(ops) : ops[i].destination # e.destination
  /\ \E i \in 1..Len(ops) :
       /\ NonSame(plan)[i].status = "Create" /\ ops[i].ok
       /\ \E k \in 1..2 : outside[k] = [path |-> ops[i].destination, node |-> File(Text)]


\* the file state that stands for a file status
StateOf(status) ==
  CASE status = "Create" -> "New" [] status = "Same" -> "InSync"
    [] status = "Overwrite" -> "Modified"

\* the check of the group returned a result
Checked == pc = "status" /\ groupResults[1].status # "Err"

\* the files of the check are the entries build_export gives on the same
\* filesystem, state for status
SameAsExport ==
  LET files == groupResults[1].files
      entries == BuildExport(mode, fs, Load(fs, RulePath).val, "bash", TargetRoot)
  IN /\ Len(files) = Len(entries)
     /\ \A i \in 1..Len(files) :
          /\ files[i].relative_path = entries[i].relative_path
          /\ files[i].state = StateOf(entries[i].status)

\* C19 as claimed: on the same filesystem check_group classifies exactly the
\* files build_export puts in the plan of the group, New, InSync and Modified
\* for Create, Same and Overwrite; and right after a successful copy-mode
\* export of a group with at least one exported file it reports InSync.
C19_Original ==
  Checked =>
    /\ SameAsExport
    /\ (mode = "File" /\ direction = "export" /\ result = "Ok" /\ PlanEntries(plan) # {})
         => groupResults[1].status = "InSync"


\* a symlink that leads to no file
Dangling(f, p) == IsSymlink(f, p) /\ ~PathExists(f, p)

\* what a source with a dangling destination is classified as
DanglingStatus == IF mode = "Link" THEN "Overwrite" ELSE "Create"
DanglingState == IF mode = "Link" THEN "Modified" ELSE "New"

\* the filesystem with the dangling symlinks of the target taken away
Undangled(f) ==
  [p \in Paths |-> IF p[1] = TargetRoot /\ Dangling(f, p) THEN Absent ELSE f[p]]

\* the relative paths of a list of classified files, in order
RelativePaths(files) == [i \in 1..Len(files) |-> files[i].relative_path]

\* C20: a destination that is a dangling symlink is classified without an
\* error: compute_status gives Overwrite under the symlink store and Create
\* under the copy store, compute_file_state gives Modified and New; the plan
\* is built and holds an entry for every other included file as well; the
\* status check fails only when the rule file cannot be loaded, and lists the
\* files it lists when the dangling symlinks are not there.
C20_DanglingDestination ==
  /\ \A e \in PlanEntries(plan) :
       Dangling(fs0, e.destination) => e.status = DanglingStatus
  /\ (pc \notin {"start", "status"} /\ Loaded.ok) =>
       /\ Built
       /\ {e.relative_path : e \in PlanEntries(plan)} = Expected
  /\ pc = "status" =>
       /\ Load(fs, RulePath).ok => groupResults[1].status # "Err"
       /\ Checked =>
            /\ \A i \in 1..Len(groupResults[1].files) :
                 LET file == groupResults[1].files[i] IN
                 Dangling(fs, <<TargetRoot, file.relative_path>>)
                   => file.state = DanglingState
            /\ LET other == CheckGroup(mode, Undangled(fs), groupDirs, resolvers, "bash")
               IN /\ other.ok
                  /\ RelativePaths(other.val.files) = RelativePaths(groupResults[1].files)

\* under the symlink store an export plan recorded Overwrite for a dangling
\* destination next to another entry; the export failed before reaching it,
\* and the check that follows lists it as Modified next to another file
C20_Witness ==
  /\ mode = "Link" /\ pc = "status" /\ direction = "export"
  /\ Len(plan) = 1 /\ Len(plan[1].entries) = 2
  /\ \E e \in PlanEntries(plan) :
       Dangling(fs0, e.destination) /\ e.status = "Overwrite"
  /\ Len(groupResults[1].files) >= 2
  /\ \E i \in 1..Len(groupResults[1].files) :
       LET file == groupResults[1].files[i] IN
       /\ Dangling(fs, <<TargetRoot, file.relative_path>>)
       /\ file.state = "Modified"


\* the groups requested, in order
Requested == {targets[i] : i \in 1..Len(targets)}

\* the rule file of the group exists and cannot be loaded: it is no text or
\* holds a '[' (no rule file here has a comment)
RuleFileBroken(f, g) ==
  /\ PathExists(f, <<g, RuleFile>>)
  /\ \/ ~IsUtf8(ContentAt(f, <<g, RuleFile>>))
     \/ \E i \in 1..Len(ContentAt(f, <<g, RuleFile>>)) :
          ContentAt(f, <<g, RuleFile>>)[i] = Byte("[")

\* resolver lookup, path expansion or rule-file loading fails for the group
GroupFails(g) ==
  \/ resolvers[g] = NoResolver
  \/ resolvers[g] = BadResolver
  \/ RuleFileBroken(fs0, g)

\* the plan has one group plan for each requested group, in order
FullyBuilt ==
  /\ Len(plan) = Len(targets)
  /\ \A i \in 1..Len(plan) : plan[i].group_name = targets[i]

\* a step changes a file only while a fully built plan is executed
WritesAfterBuild ==
  (fs' # fs \/ groupDirs' # groupDirs) => (pc = "execute" /\ FullyBuilt)

\* after the plan was asked for: a failing group ends the invocation with the
\* error and nothing modified, and otherwise the plan is fully built
BuiltOrFailed ==
  direction # "none" =>
    /\ (\E g \in Requested : GroupFails(g)) =>
         /\ pc = "done" /\ result = "Err"
         /\ plan = <<>> /\ ops = <<>> /\ out = <<>>
         /\ fs = fs0
    /\ (\A g \in Requested : ~GroupFails(g)) => FullyBuilt
    /\ pc \in {"confirm", "execute"} /\ ops = <<>> => fs = fs0

\* the part of C21 the code keeps: the plan of every requested group is built
\* before any file is written; building modifies nothing, and when resolver
\* lookup, path expansion or rule-file loading fails for any group, the last
\* one included, the invocation ends with the error and no file is modified.
C21_BuiltBeforeWritten == []BuiltOrFailed /\ [][WritesAfterBuild]_vars

\* two groups were requested; the first has a file the target lacks or holds
\* differently and builds, the rule file of the last one does not load: the
\* invocation ended with the error and every file is as it was
C21_Witness ==
  /\ pc = "done" /\ result = "Err" /\ Len(targets) = 2
  /\ ~GroupFails(targets[1]) /\ RuleFileBroken(fs0, targets[2])
  /\ resolvers[targets[2]] = TargetRoot
  /\ direction = "export"
  /\ fs0[<<targets[1], "a">>].kind = "file"
  /\ fs0[<<TargetRoot, "a">>] # fs0[<<targets[1], "a">>]
  /\ fs = fs0 /\ ops = <<>>


\* the tree of the group cannot be enumerated: an export of a group whose
\* directory does not exist (WalkDir yields the error of its root)
EnumerationFails(g) == direction = "export" /\ g \notin DirsOf(fs0)

\* a failure of any of the four kinds ends the invocation with the error
FailureEndsInvocation ==
  (direction # "none" /\ \E g \in Requested : GroupFails(g) \/ EnumerationFails(g))
    => /\ pc = "done" /\ result = "Err"
       /\ ops = <<>> /\ fs = fs0

\* C21 as claimed: the plan of every requested group is built before any file
\* is written, and when resolver lookup, path expansion, rule-file loading or
\* tree enumeration fails for any group the invocation ends with that error
\* and no file of any group has been modified.
C21_Original ==
  [](BuiltOrFailed /\ FailureEndsInvocation) /\ [][WritesAfterBuild]_vars


\* nothing has been applied: no operation, every file and directory as before
Untouched == ops = <<>> /\ cursor = 1 /\ fs = fs0 /\ groupDirs = DirsOf(fs0)

\* the dialogue and an abort leave everything as it was; with skip_confirm a
\* plan with changes goes to execute and no line is ever read
AbortKeeps ==
  /\ pc = "confirm" => Untouched
  /\ AbortedRun =>
       /\ Untouched
       /\ ~skip_confirm /\ SomeChange
       /\ Says(input, "n", "N") \/ Blank(input)
  /\ (skip_confirm /\ SomeChange) =>
       /\ input = NoLine /\ shown = <<>> /\ ~hinted
       /\ pc \in {"execute", "done"}
       /\ Len(out) >= 2 /\ out[2] = "Executing"
  /\ (Len(out) >= 2 /\ out[2] = "Executing") =>
       skip_confirm \/ Says(input, "y", "Y")

\* a line saying n, or a blank line, read at the prompt ends the run as
\* aborted, whatever was shown or hinted before, and the step changes no file
AbortStep ==
  (pc = "confirm" /\ input' \notin {NoLine, ReadFailed}
     /\ (Says(input', "n", "N") \/ Blank(input')))
    => /\ pc' = "done" /\ result' = "Ok"
       /\ out' = out \o <<"Aborted">>
       /\ fs' = fs /\ groupDirs' = groupDirs /\ ops' = ops

\* C22: when the plan has changes and the user aborts with n or an empty
\* line, run returns Ok without executing and every source and destination
\* file is unchanged, whatever number of d or invalid inputs came before; with
\* skip_confirm, run goes to execute without reading any input.
C22_AbortLeavesUnchanged == []AbortKeeps /\ [][AbortStep]_vars

\* an abort after the diffs of a plan with two changes were shown
C22_Witness ==
  /\ AbortedRun /\ Untouched
  /\ Len(shown) = 2
  /\ Says(input, "n", "N")

====
